---- MODULE Spec2Model ----
(***************************************************************************)
(* The indent size selector of crates/indent_size_selector: the picker     *)
(* delegate (candidates, matches, selected_index), its asynchronous filter *)
(* tasks, and the editorconfig override that confirm() writes.             *)
(***************************************************************************)
EXTENDS Integers, Sequences, FiniteSets, Bags, TLC

VARIABLES
    matches,          \* IndentSizeSelectorDelegate.matches
    selected_index,   \* IndentSizeSelectorDelegate.selected_index
    query,            \* the query of the most recent update_matches call
    inflight,         \* the bag of spawned filter tasks that have not completed
    selector_alive,   \* the WeakEntity<IndentSizeSelector> still upgrades
    picker_alive,     \* the WeakEntity<Picker<..>> held by the tasks still upgrades
    editor,           \* the editor: its file at Point::zero() and its indent kind
    was_dismissed,    \* confirm() or dismissed() has run
    last              \* the handler that ran last: its name, the query of a
                      \* completion, its set_local_settings calls, its DismissEvents,
                      \* the index given to set_selected_index

VARIABLES
    indentation,      \* the Indentation status item: indent_size and the
                      \* editor its _observe_active_editor subscription is to
    pane              \* the workspace around it: the active pane item, the
                      \* documents of the editors, the editors whose change
                      \* notification is not delivered yet

vars == <<matches, selected_index, query, inflight, selector_alive, picker_alive,
          editor, was_dismissed, last, indentation, pane>>

delegate_vars == <<matches, selected_index, query, inflight, selector_alive,
                   picker_alive, editor, was_dismissed>>

----------------------------------------------------------------------------
(* Bounds of the model *)

MaxInFlight == 2
MaxIndex == 4
MaxQueryLen == 2

----------------------------------------------------------------------------
(* Characters and arithmetic *)

UpperCase == <<"A","B","C","D","E","F","G","H","I","J","K","L","M",
               "N","O","P","Q","R","S","T","U","V","W","X","Y","Z">>
LowerCase == <<"a","b","c","d","e","f","g","h","i","j","k","l","m",
               "n","o","p","q","r","s","t","u","v","w","x","y","z">>

ToLower(c) ==
    IF \E i \in 1..26 : UpperCase[i] = c
    THEN LowerCase[CHOOSE i \in 1..26 : UpperCase[i] = c]
    ELSE c

Min(a, b) == IF a < b THEN a ELSE b

SaturatingSub(a, b) == IF a < b THEN 0 ELSE a - b

----------------------------------------------------------------------------
(* The candidate list built by IndentSizeSelectorDelegate::new *)

candidates ==
    << [id |-> 16, string |-> "Toggle Spaces/Tabs"],
       [id |-> 2,  string |-> "2 spaces"],
       [id |-> 4,  string |-> "4 spaces"],
       [id |-> 8,  string |-> "8 spaces"] >>

(* the characters of a candidate's label *)
Chars(string) ==
    CASE string = "Toggle Spaces/Tabs" ->
            <<"T","o","g","g","l","e"," ","S","p","a","c","e","s","/","T","a","b","s">>
      [] string = "2 spaces" -> <<"2"," ","s","p","a","c","e","s">>
      [] string = "4 spaces" -> <<"4"," ","s","p","a","c","e","s">>
      [] string = "8 spaces" -> <<"8"," ","s","p","a","c","e","s">>

(* The queries the picker passes to update_matches, as character sequences *)
Queries == { <<>>, <<"8">>, <<"b","a">> }

----------------------------------------------------------------------------
(* fuzzy::match_strings, from its contract: the candidates whose label      *)
(* holds the query's characters in order, ranked by score, at most          *)
(* max_results of them.                                                     *)

ScoreScale == 1000

(* the first offset k >= j of s whose character matches c, 0 when none *)
NextPos(c, s, j, smart_case) ==
    LET hits == { k \in j..Len(s) :
                    IF smart_case /\ ToLower(c) # c
                    THEN s[k] = c
                    ELSE ToLower(s[k]) = ToLower(c) }
    IN IF hits = {} THEN 0 ELSE CHOOSE k \in hits : \A h \in hits : k <= h

RECURSIVE IsSubsequence(_, _, _, _, _)
IsSubsequence(q, s, i, j, smart_case) ==
    IF i > Len(q) THEN TRUE
    ELSE LET k == NextPos(q[i], s, j, smart_case)
         IN k # 0 /\ IsSubsequence(q, s, i + 1, k + 1, smart_case)

RECURSIVE MatchPositions(_, _, _, _, _)
MatchPositions(q, s, i, j, smart_case) ==
    IF i > Len(q) THEN <<>>
    ELSE LET k == NextPos(q[i], s, j, smart_case)
         IN <<k - 1>> \o MatchPositions(q, s, i + 1, k + 1, smart_case)

(* earlier, denser and more specific matches score higher; positive for a *)
(* query that has characters                                              *)
MatchScore(q, s, positions) ==
    IF positions = <<>> THEN 0
    ELSE LET first == positions[1]
             span == positions[Len(positions)] - first + 1
             penalty == first + (span - Len(q)) + (Len(s) - Len(q))
         IN (ScoreScale * Len(q)) \div (Len(q) + penalty)

RECURSIVE InsertByScore(_, _)
InsertByScore(m, sorted) ==
    IF sorted = <<>> THEN <<m>>
    ELSE IF m.score > Head(sorted).score THEN <<m>> \o sorted
    ELSE <<Head(sorted)>> \o InsertByScore(m, Tail(sorted))

RECURSIVE SortByScore(_)
SortByScore(ms) ==
    IF ms = <<>> THEN <<>>
    ELSE InsertByScore(ms[Len(ms)], SortByScore(SubSeq(ms, 1, Len(ms) - 1)))

RECURSIVE MatchEach(_, _, _)
MatchEach(cands, q, smart_case) ==
    IF cands = <<>> THEN <<>>
    ELSE LET c == Head(cands)
             rest == MatchEach(Tail(cands), q, smart_case)
         IN IF IsSubsequence(q, Chars(c.string), 1, 1, smart_case)
            THEN LET positions == MatchPositions(q, Chars(c.string), 1, 1, smart_case)
                 IN << [candidate_id |-> c.id,
                        string |-> c.string,
                        positions |-> positions,
                        score |-> MatchScore(q, Chars(c.string), positions)] >> \o rest
            ELSE rest

match_strings(cands, q, smart_case, max_results) ==
    LET ranked == SortByScore(MatchEach(cands, q, smart_case))
    IN SubSeq(ranked, 1, Min(Len(ranked), max_results))

----------------------------------------------------------------------------
(* The body of the task spawned by update_matches *)

(* the emptiness test dropped: every query goes to the fuzzy matcher *)
AlwaysFuzzyMatcher(q) == TRUE

(* the emptiness test stuck on the empty branch: no query is matched *)
NeverFuzzyMatcher(q) == FALSE

(* query.is_empty() is false: the task awaits the fuzzy matcher *)
UsesFuzzyMatcher(q) == q # <<>>

(* the map taking a candidate's position in the list for its id *)
RECURSIVE AllCandidatesByIndex(_)
AllCandidatesByIndex(cands) ==
    IF cands = <<>> THEN <<>>
    ELSE << [candidate_id |-> Len(candidates) - Len(cands),
             string |-> Head(cands).string,
             positions |-> <<>>,
             score |-> 0] >> \o AllCandidatesByIndex(Tail(cands))

(* the map over the candidates of the empty-query branch *)
RECURSIVE AllCandidates(_)
AllCandidates(cands) ==
    IF cands = <<>> THEN <<>>
    ELSE << [candidate_id |-> Head(cands).id,
             string |-> Head(cands).string,
             positions |-> <<>>,
             score |-> 0] >> \o AllCandidates(Tail(cands))

MaxResults == 100

(* the match_strings call of the non-empty branch *)
FuzzyMatches(cands, q) == match_strings(cands, q, FALSE, MaxResults)

(* what a task delivers for its query *)
filter(cands, q) ==
    IF UsesFuzzyMatcher(q) THEN FuzzyMatches(cands, q) ELSE AllCandidates(cands)

----------------------------------------------------------------------------
(* The editor's file and the settings store *)

NoFile == [worktree_id |-> 0, path |-> ""]

Files == { [worktree_id |-> 1, path |-> "src/main.rs"],
           [worktree_id |-> 2, path |-> "lib/util.py"] }

Editors == [file : Files \cup {NoFile}, hard_tabs : BOOLEAN]

(* the format! with a tab width that does not follow the chosen size *)
ConfigTextFixedTabWidth(indent_size) ==
    "[/**]\nindent_size = " \o ToString(indent_size)
        \o "\nindent_style = space\ntab_width=4"

(* the format! of confirm() *)
ConfigText(indent_size) ==
    "[/**]\nindent_size = " \o ToString(indent_size)
        \o "\nindent_style = space\ntab_width=" \o ToString(indent_size)

(* the set_local_settings call of confirm(), with the Result the store returned *)
SettingsCall(file, indent_size, ok) ==
    [worktree_id |-> file.worktree_id,
     path |-> file.path,
     kind |-> "Editorconfig",
     content |-> ConfigText(indent_size),
     ok |-> ok]

(* the bounds test of get() off by one: the last match is not selectable *)
HasSelectionOffByOne(ms, ix) == ix + 1 < Len(ms)

(* matches.get(selected_index) is Some *)
HasSelection(ms, ix) == ix < Len(ms)

(* confirm() writing for an editor that has no file *)
ConfirmCallsIgnoringFile(ms, ix, file, ok) ==
    IF HasSelection(ms, ix)
    THEN << SettingsCall(file, ms[ix + 1].candidate_id, ok) >>
    ELSE <<>>

(* the settings calls of one confirm(): one when there is a selection and the *)
(* editor has a file at the buffer start, none otherwise                      *)
ConfirmCalls(ms, ix, file, ok) ==
    IF HasSelection(ms, ix) /\ file # NoFile
    THEN << SettingsCall(file, ms[ix + 1].candidate_id, ok) >>
    ELSE <<>>

(* dismissed() emitting without the upgrade of the weak handle *)
EmitDismissUnchecked(alive) == 1

(* dismissed(): WeakEntity::update emits one DismissEvent when the selector *)
(* still upgrades; a failed upgrade is only logged                          *)
EmitDismiss(alive) == IF alive THEN 1 ELSE 0

(* confirm() returning early when it wrote nothing *)
DismissOnlyAfterWrite(calls, alive) ==
    IF calls = <<>> THEN 0 ELSE EmitDismiss(alive)

(* confirm() propagating the store's error in place of discarding it *)
DismissUnlessWriteFailed(calls, alive) ==
    IF calls # <<>> /\ ~calls[1].ok THEN 0 ELSE EmitDismiss(alive)

(* confirm() ends with self.dismissed(..), whatever the write did *)
DismissAfterConfirm(calls, alive) == EmitDismiss(alive)

(* the clamp without the subtraction: min(len) in place of min(len - 1) *)
ClampedIndexToLen(ix, ms) == Min(ix, Len(ms))

(* the clamp replaced by a move to the last match *)
ClampedIndexToLast(ix, ms) == SaturatingSub(Len(ms), 1)

(* the clamp replaced by a reset of the selection *)
ClampedIndexReset(ix, ms) == 0

(* selected_index.min(matches.len().saturating_sub(1)) *)
ClampedIndex(ix, ms) == Min(ix, SaturatingSub(Len(ms), 1))

(* set_selected_index clamping its argument as a completion does *)
StoredIndexClamped(ix, ms) == Min(ix, SaturatingSub(Len(ms), 1))

(* set_selected_index stores its argument *)
StoredIndex(ix, ms) == ix

NoListItem == [ix |-> 0, selected |-> FALSE, label |-> "", positions |-> <<>>]

(* render_match(ix, selected) for an ix in range: the list item of the *)
(* candidate that has the match's id, none when no candidate has it    *)
render_match(ms, ix, selected) ==
    LET mat == ms[ix + 1]
        found == { k \in 1..Len(candidates) : candidates[k].id = mat.candidate_id }
    IN IF found = {} THEN NoListItem
       ELSE LET first == CHOOSE k \in found : \A h \in found : k <= h
            IN [ix |-> ix, selected |-> selected,
                label |-> candidates[first].string,
                positions |-> mat.positions]

Handler(name, q, calls, events) ==
    [op |-> name, query |-> q, calls |-> calls, events |-> events, index |-> 0]

Op(name) == Handler(name, <<>>, <<>>, 0)

----------------------------------------------------------------------------
(* The status item of indentation.rs and read_indent_size *)

EditorItems == {"editor_a", "editor_b"}

(* the pane items: none, the editors, an item that is no editor *)
PaneItems == {"none", "terminal"} \cup EditorItems

TabSizes == {2, 8}

NoExcerpt == [excerpt |-> FALSE, language |-> FALSE, tab_size |-> 2, hard_tabs |-> FALSE]

NoLanguage == [excerpt |-> TRUE, language |-> FALSE, tab_size |-> 2, hard_tabs |-> FALSE]

(* what an editor shows: whether it has an active excerpt, whether the buffer *)
(* has a language, and the tab_size and hard_tabs language_settings resolves  *)
Documents ==
    {NoExcerpt, NoLanguage}
        \cup [excerpt : {TRUE}, language : {TRUE}, tab_size : TabSizes, hard_tabs : BOOLEAN]

NoIndentSize == [len |-> 0, kind |-> "None"]

(* read_indent_size with the two IndentKind arms exchanged *)
read_indent_size_swapped(document) ==
    IF ~document.excerpt \/ ~document.language
    THEN NoIndentSize
    ELSE [len |-> document.tab_size,
          kind |-> IF document.hard_tabs THEN "Space" ELSE "Tab"]

(* read_indent_size(editor, cx) *)
read_indent_size(document) ==
    IF ~document.excerpt
    THEN NoIndentSize
    ELSE IF ~document.language
    THEN NoIndentSize
    ELSE [len |-> document.tab_size,
          kind |-> IF document.hard_tabs THEN "Tab" ELSE "Space"]

(* set_active_pane_item leaving the old subscription in place for a non-editor *)
SubscriptionKept(item, old) == IF item \in EditorItems THEN item ELSE old

(* the _observe_active_editor that set_active_pane_item leaves *)
SubscriptionFor(item, old) == IF item \in EditorItems THEN item ELSE "none"

----------------------------------------------------------------------------
(* The state machine *)

(* Indentation::new, in a workspace with no active item *)
IndentationNew == [indent_size |-> NoIndentSize, observe_active_editor |-> "none"]

PaneNew ==
    [active_item |-> "none",
     documents |-> [e \in EditorItems |-> NoExcerpt],
     notified |-> {}]

Init ==
    /\ indentation = IndentationNew
    /\ pane = PaneNew
    /\ matches = <<>>
    /\ selected_index = 0
    /\ query = <<>>
    /\ inflight = EmptyBag
    /\ selector_alive = TRUE
    /\ picker_alive = TRUE
    /\ editor \in Editors
    /\ was_dismissed = FALSE
    /\ last = Op("new")

Task(q) == [query |-> q, matched |-> FALSE, matches |-> <<>>]

(* update_matches clearing the list before the new results arrive *)
UpdateMatchesClearing(q) ==
    /\ picker_alive
    /\ BagCardinality(inflight) < MaxInFlight
    /\ inflight' = inflight (+) SetToBag({Task(q)})
    /\ query' = q
    /\ matches' = <<>>
    /\ last' = Op("update_matches")
    /\ UNCHANGED <<selected_index, selector_alive, picker_alive,
                   editor, was_dismissed>>

(* update_matches(query): spawns the filter task *)
UpdateMatches(q) ==
    /\ picker_alive
    /\ BagCardinality(inflight) < MaxInFlight
    /\ inflight' = inflight (+) SetToBag({Task(q)})
    /\ query' = q
    /\ last' = Op("update_matches")
    /\ UNCHANGED <<matches, selected_index, selector_alive, picker_alive,
                   editor, was_dismissed>>

(* a task with a non-empty query awaits match_strings on the background executor *)
BackgroundMatch(task) ==
    /\ BagIn(task, inflight)
    /\ UsesFuzzyMatcher(task.query)
    /\ ~task.matched
    /\ inflight' = (inflight (-) SetToBag({task}))
                     (+) SetToBag({[task EXCEPT !.matched = TRUE,
                                                !.matches = FuzzyMatches(candidates, task.query)]})
    /\ last' = Op("match_strings")
    /\ UNCHANGED <<matches, selected_index, query, selector_alive, picker_alive,
                   editor, was_dismissed>>

(* the completion extending the old matches in place of replacing them *)
TaskMatchesAppended(task) ==
    matches \o (IF task.matched THEN task.matches ELSE AllCandidates(candidates))

(* the matches a task holds when it reaches this.update *)
TaskMatches(task) ==
    IF task.matched THEN task.matches ELSE AllCandidates(candidates)

(* the task's this.update(..): stores the matches and clamps the selection; *)
(* with the picker released the update fails and is only logged             *)
FilterComplete(task) ==
    /\ BagIn(task, inflight)
    /\ UsesFuzzyMatcher(task.query) => task.matched
    /\ inflight' = inflight (-) SetToBag({task})
    /\ IF picker_alive
       THEN /\ matches' = TaskMatches(task)
            /\ selected_index' = ClampedIndex(selected_index, TaskMatches(task))
            /\ last' = Handler("filter_complete", task.query, <<>>, 0)
       ELSE /\ UNCHANGED <<matches, selected_index>>
            /\ last' = Handler("filter_discarded", task.query, <<>>, 0)
    /\ UNCHANGED <<query, selector_alive, picker_alive, editor, was_dismissed>>

(* set_selected_index(ix) *)
SetSelectedIndex(ix) ==
    /\ picker_alive
    /\ selected_index' = StoredIndex(ix, matches)
    /\ last' = [Op("set_selected_index") EXCEPT !.index = ix]
    /\ UNCHANGED <<matches, query, inflight, selector_alive, picker_alive,
                   editor, was_dismissed>>

(* confirm(_secondary); ok is the Result of set_local_settings *)
Confirm(ok) ==
    LET calls == ConfirmCalls(matches, selected_index, editor.file, ok)
    IN /\ picker_alive
       /\ last' = Handler("confirm", <<>>, calls,
                          DismissAfterConfirm(calls, selector_alive))
       /\ was_dismissed' = TRUE
       /\ UNCHANGED <<matches, selected_index, query, inflight,
                      selector_alive, picker_alive, editor>>

(* dismissed() *)
Dismissed ==
    /\ picker_alive
    /\ last' = Handler("dismissed", <<>>, <<>>, EmitDismiss(selector_alive))
    /\ was_dismissed' = TRUE
    /\ UNCHANGED <<matches, selected_index, query, inflight,
                   selector_alive, picker_alive, editor>>

(* the workspace drops the modal: the selector's weak handle stops upgrading *)
ReleaseSelector ==
    /\ selector_alive
    /\ selector_alive' = FALSE
    /\ last' = Op("release_selector")
    /\ UNCHANGED <<matches, selected_index, query, inflight, picker_alive,
                   editor, was_dismissed>>

(* the selector owned the picker; once it is gone the picker can go too *)
ReleasePicker ==
    /\ ~selector_alive
    /\ picker_alive
    /\ picker_alive' = FALSE
    /\ last' = Op("release_picker")
    /\ UNCHANGED <<matches, selected_index, query, inflight, selector_alive,
                   editor, was_dismissed>>

Next ==
    /\ \/ \E q \in Queries : UpdateMatches(q)
       \/ \E task \in BagToSet(inflight) : BackgroundMatch(task)
       \/ \E task \in BagToSet(inflight) : FilterComplete(task)
       \/ \E ix \in 0..MaxIndex : SetSelectedIndex(ix)
       \/ \E ok \in BOOLEAN : Confirm(ok)
       \/ Dismissed
       \/ ReleaseSelector
       \/ ReleasePicker
    /\ UNCHANGED <<indentation, pane>>

Spec == Init /\ [][Next]_vars

(* The filter alone: one query at a time, over every short query *)

FilterAlphabet == {"8", "s", "S", "a", "b"}

FilterQueries == UNION { [1..n -> FilterAlphabet] : n \in 0..MaxQueryLen }

FilterQuery(q) ==
    /\ inflight = EmptyBag
    /\ UpdateMatches(q)

NextFilter ==
    /\ \/ \E q \in FilterQueries : FilterQuery(q)
       \/ \E task \in BagToSet(inflight) : BackgroundMatch(task)
       \/ \E task \in BagToSet(inflight) : FilterComplete(task)
    /\ UNCHANGED <<indentation, pane>>

SpecFilter == Init /\ [][NextFilter]_vars

(* The status item alone *)

(* set_active_pane_item(active_pane_item) *)
SetActivePaneItem(item) ==
    /\ pane' = [pane EXCEPT !.active_item = item]
    /\ indentation' =
          [indent_size |->
               IF item \in EditorItems
               THEN read_indent_size(pane.documents[item])
               ELSE NoIndentSize,
           observe_active_editor |->
               SubscriptionFor(item, indentation.observe_active_editor)]
    /\ last' = Op("set_active_pane_item")
    /\ UNCHANGED delegate_vars

(* an editor's document changes and the editor notifies its observers *)
EditorChanged(e, document) ==
    /\ pane.documents[e] # document
    /\ pane' = [pane EXCEPT !.documents[e] = document,
                            !.notified = pane.notified \cup {e}]
    /\ last' = Op("editor_notify")
    /\ UNCHANGED <<indentation, delegate_vars>>

(* the notification reaches the observers the editor has then: *)
(* update_indentation(editor) when the status item observes it *)
DeliverNotify(e) ==
    /\ e \in pane.notified
    /\ pane' = [pane EXCEPT !.notified = pane.notified \ {e}]
    /\ IF indentation.observe_active_editor = e
       THEN /\ indentation' = [indentation EXCEPT
                                  !.indent_size = read_indent_size(pane.documents[e])]
            /\ last' = Op("update_indentation")
       ELSE /\ UNCHANGED indentation
            /\ last' = Op("notify_unobserved")
    /\ UNCHANGED delegate_vars

InitIndentation ==
    /\ Init
    /\ editor = [file |-> NoFile, hard_tabs |-> FALSE]

NextIndentation ==
    \/ \E item \in PaneItems : SetActivePaneItem(item)
    \/ \E e \in EditorItems, document \in Documents : EditorChanged(e, document)
    \/ \E e \in EditorItems : DeliverNotify(e)

SpecIndentation == InitIndentation /\ [][NextIndentation]_vars

TypeOK ==
    /\ selected_index \in 0..MaxIndex
    /\ BagCardinality(inflight) <= MaxInFlight
    /\ Len(last.calls) <= 1
    /\ last.events \in {0, 1}

----------------------------------------------------------------------------
(* Properties *)

(* selected_index is a valid index into matches, or 0 when matches is empty *)
ValidSelection ==
    \/ selected_index < Len(matches)
    \/ matches = <<>> /\ selected_index = 0

(* C1: a completion that arrives after a newer query's completion does not    *)
(* clobber state: once every spawned filter has been delivered, matches is    *)
(* the result of the query issued last.                                       *)
C1_LatestQueryWins ==
    (picker_alive /\ last.op = "filter_complete" /\ inflight = EmptyBag)
        => matches = filter(candidates, query)

(* C2, as claimed: in every reachable state selected_index is a valid index *)
(* into matches, or 0 when matches is empty.                                *)
C2_SelectedIndexAlwaysValid == ValidSelection

(* C2, amended: selected_index is valid after construction and after every    *)
(* applied filter completion; set_selected_index(ix) stores ix unclamped, so   *)
(* after it selected_index is valid exactly when ix is a valid index into the  *)
(* unchanged matches (or 0 when matches is empty), whatever it was before; and *)
(* every other step leaves matches and selected_index as they were.           *)
C2_OnlySetSelectedIndexInvalidates ==
    [][ /\ last.op = "new" => ValidSelection
        /\ last'.op = "filter_complete" => ValidSelection'
        /\ last'.op = "set_selected_index" =>
              /\ matches' = matches
              /\ ValidSelection' <=>
                    \/ last'.index < Len(matches)
                    \/ matches = <<>> /\ last'.index = 0
        /\ last'.op \notin {"filter_complete", "set_selected_index"} =>
              /\ matches' = matches
              /\ selected_index' = selected_index
      ]_vars

(* an in-range set_selected_index call on the four pass-through matches has *)
(* left a valid selection                                                   *)
C2_Witness ==
    /\ last.op = "set_selected_index"
    /\ last.index = 3
    /\ Len(matches) = 4
    /\ selected_index = 3
    /\ ValidSelection

(* C3: a filter completion sets selected_index to min(old selected_index,     *)
(* len(matches) - 1) with saturating subtraction, so that afterwards it is a  *)
(* valid index, or 0 when matches is empty, whatever it was before.           *)
C3_CompletionClampsSelection ==
    [][ last'.op = "filter_complete" =>
          /\ selected_index' =
                IF matches' = <<>> THEN 0
                ELSE IF selected_index < Len(matches') THEN selected_index
                ELSE Len(matches') - 1
          /\ ValidSelection'
      ]_vars

C3_Witness ==
    /\ last.op = "filter_complete"
    /\ last.query = <<"8">>
    /\ Len(matches) = 1
    /\ selected_index = 0

(* the override text the store is to receive for a width *)
ExpectedConfig(n) ==
    CASE n = 16 -> "[/**]\nindent_size = 16\nindent_style = space\ntab_width=16"
      [] n = 2 -> "[/**]\nindent_size = 2\nindent_style = space\ntab_width=2"
      [] n = 4 -> "[/**]\nindent_size = 4\nindent_style = space\ntab_width=4"
      [] n = 8 -> "[/**]\nindent_size = 8\nindent_style = space\ntab_width=8"
      [] OTHER -> ""

(* the last handler made exactly one set_local_settings call, for the *)
(* editor's file, with the override text of width n                   *)
WroteOnce(handler, n) ==
    /\ Len(handler.calls) = 1
    /\ handler.calls[1].worktree_id = editor.file.worktree_id
    /\ handler.calls[1].path = editor.file.path
    /\ handler.calls[1].kind = "Editorconfig"
    /\ handler.calls[1].content = ExpectedConfig(n)

(* C4: confirm() with a valid selection of candidate id n, on an editor whose *)
(* file is at path P of worktree W, makes exactly one set_local_settings call *)
(* with (W, P, Editorconfig) and the text "[/**]\nindent_size = n\n           *)
(* indent_style = space\ntab_width=n", for n in {16, 2, 4, 8} and whatever    *)
(* the indent kind of the document.                                           *)
C4_ConfirmWritesSpaceOverride ==
    (last.op = "confirm" /\ selected_index < Len(matches) /\ editor.file # NoFile)
        => /\ matches[selected_index + 1].candidate_id \in {16, 2, 4, 8}
           /\ WroteOnce(last, matches[selected_index + 1].candidate_id)

C4_Witness ==
    /\ last.op = "confirm"
    /\ editor = [file |-> [worktree_id |-> 1, path |-> "src/main.rs"], hard_tabs |-> TRUE]
    /\ selected_index = 0
    /\ Len(matches) = 4
    /\ matches[1].candidate_id = 16
    /\ last.calls = << [worktree_id |-> 1, path |-> "src/main.rs", kind |-> "Editorconfig",
                        content |-> "[/**]\nindent_size = 16\nindent_style = space\ntab_width=16",
                        ok |-> TRUE] >>

(* C5: confirm() with empty matches makes no settings call and still emits *)
(* the dismissal: the DismissEvent goes out through the selector's handle  *)
(* exactly as dismissed() sends it.                                        *)
C5_ConfirmOnEmptyOnlyDismisses ==
    (last.op = "confirm" /\ matches = <<>>)
        => /\ last.calls = <<>>
           /\ last.events = IF selector_alive THEN 1 ELSE 0

C5_Witness ==
    /\ last.op = "confirm"
    /\ matches = <<>>
    /\ query = <<"b", "a">>
    /\ inflight = EmptyBag
    /\ editor.file # NoFile
    /\ last.calls = <<>>
    /\ last.events = 1

(* C6: when the set_local_settings call of confirm() returns an error, the  *)
(* error is swallowed: that confirm() makes no second call, still emits the *)
(* dismissal, and leaves matches and selected_index as they were.           *)
C6_WriteFailureIsSwallowed ==
    [][ (last'.op = "confirm" /\ last'.calls # <<>> /\ ~last'.calls[1].ok) =>
          /\ Len(last'.calls) = 1
          /\ last'.events = IF selector_alive THEN 1 ELSE 0
          /\ matches' = matches
          /\ selected_index' = selected_index
      ]_vars

C6_Witness ==
    /\ last.op = "confirm"
    /\ Len(last.calls) = 1
    /\ ~last.calls[1].ok
    /\ last.events = 1

(* C7: Dismissed is terminal: once confirm() or dismissed() has run, no later *)
(* transition changes matches or selected_index or makes a settings call.     *)
C7_DismissedIsTerminal ==
    [][ was_dismissed =>
          /\ matches' = matches
          /\ selected_index' = selected_index
          /\ last'.calls = <<>>
      ]_vars

(* C8: a filter completion for the empty query sets matches to the four    *)
(* candidates in their original order, each with no positions and score 0, *)
(* and a task with the empty query never goes through the fuzzy matcher.   *)
C8_EmptyQueryPassesAllCandidates ==
    /\ (last.op = "filter_complete" /\ last.query = <<>>) =>
          matches = << [candidate_id |-> 16, string |-> "Toggle Spaces/Tabs",
                        positions |-> <<>>, score |-> 0],
                       [candidate_id |-> 2, string |-> "2 spaces",
                        positions |-> <<>>, score |-> 0],
                       [candidate_id |-> 4, string |-> "4 spaces",
                        positions |-> <<>>, score |-> 0],
                       [candidate_id |-> 8, string |-> "8 spaces",
                        positions |-> <<>>, score |-> 0] >>
    /\ \A task \in BagToSet(inflight) : task.query = <<>> => ~task.matched

C8_Witness ==
    /\ last.op = "filter_complete"
    /\ last.query = <<>>
    /\ Len(matches) = 4
    /\ matches[1].candidate_id = 16
    /\ matches[4].candidate_id = 8

(* q's characters occur in s in order, compared without case *)
RECURSIVE ContainsInOrder(_, _)
ContainsInOrder(q, s) ==
    IF q = <<>> THEN TRUE
    ELSE IF s = <<>> THEN FALSE
    ELSE IF ToLower(Head(q)) = ToLower(Head(s))
         THEN ContainsInOrder(Tail(q), Tail(s))
         ELSE ContainsInOrder(q, Tail(s))

(* C9: for a non-empty query q every match the filter returns carries the id *)
(* of a candidate whose label contains the characters of q in order,         *)
(* compared case-insensitively.                                              *)
C9_MatchesContainQueryInOrder ==
    (last.op = "filter_complete" /\ last.query # <<>>) =>
        \A i \in 1..Len(matches) :
            \E k \in 1..Len(candidates) :
                /\ candidates[k].id = matches[i].candidate_id
                /\ ContainsInOrder(last.query, Chars(candidates[k].string))

C9_Witness ==
    /\ last.op = "filter_complete"
    /\ last.query = <<"S", "b">>
    /\ Len(matches) = 1
    /\ matches[1].candidate_id = 16

(* C10: the picker opened with the empty query shows [Toggle, 2, 4, 8];      *)
(* the completion of the query "8" leaves exactly one match, id 8, selected, *)
(* whatever selected_index was before; confirm() then makes one settings     *)
(* call with width 8 and the selector emits the dismissal.                   *)
C10_OpenTypeEightConfirm ==
    [][ /\ (last'.op = "filter_complete" /\ last'.query = <<>>) =>
              /\ Len(matches') = 4
              /\ matches'[1].candidate_id = 16
              /\ matches'[2].candidate_id = 2
              /\ matches'[3].candidate_id = 4
              /\ matches'[4].candidate_id = 8
        /\ (last'.op = "filter_complete" /\ last'.query = <<"8">>) =>
              /\ Len(matches') = 1
              /\ matches'[1].candidate_id = 8
              /\ selected_index' = 0
        /\ ( /\ last.op = "filter_complete"
             /\ last.query = <<"8">>
             /\ last'.op = "confirm"
             /\ editor.file # NoFile
             /\ selector_alive ) =>
              /\ WroteOnce(last', 8)
              /\ last'.events = 1
      ]_vars

C10_Witness ==
    /\ last.op = "confirm"
    /\ Len(matches) = 1
    /\ matches[1].candidate_id = 8
    /\ matches[1].positions = <<0>>
    /\ Len(last.calls) = 1
    /\ last.calls[1].content = "[/**]\nindent_size = 8\nindent_style = space\ntab_width=8"
    /\ last.events = 1

(* C11: for every query the number of matches a filter completion stores is *)
(* at most 100, and never more than the number of candidates.               *)
C11_MatchCountIsCapped ==
    last.op = "filter_complete" =>
        /\ Len(matches) <= 100
        /\ Len(matches) <= 4

C11_Witness ==
    /\ last.op = "filter_complete"
    /\ last.query = <<"s">>
    /\ Len(matches) = 4

(* C12: the filter writes delegate state only in its completion: issuing     *)
(* update_matches and the background match leave matches and selected_index  *)
(* as they were, and matches changes in no step but a completion, so a       *)
(* confirm while a filter is in flight acts on the matches settled before.   *)
C12_OnlyCompletionWritesMatches ==
    [][ /\ last'.op \in {"update_matches", "match_strings"} =>
              /\ matches' = matches
              /\ selected_index' = selected_index
        /\ matches' # matches => last'.op = "filter_complete"
        /\ selected_index' # selected_index =>
              last'.op \in {"filter_complete", "set_selected_index"}
      ]_vars

C12_Witness ==
    /\ last.op = "confirm"
    /\ query = <<"8">>
    /\ inflight # EmptyBag
    /\ Len(matches) = 4
    /\ selected_index = 1
    /\ Len(last.calls) = 1
    /\ last.calls[1].content = "[/**]\nindent_size = 2\nindent_style = space\ntab_width=2"

(* C13: set_selected_index(i) stores i as selected_index for every i, with *)
(* no clamp against len(matches), and changes nothing else: no settings    *)
(* call, no dismissal.                                                     *)
C13_SetSelectedIndexStoresArgument ==
    [][ last'.op = "set_selected_index" =>
          /\ selected_index' = last'.index
          /\ matches' = matches
          /\ inflight' = inflight
          /\ query' = query
          /\ was_dismissed' = was_dismissed
          /\ last'.calls = <<>>
          /\ last'.events = 0
      ]_vars

C13_Witness ==
    /\ last.op = "set_selected_index"
    /\ last.index = 4
    /\ selected_index = 4
    /\ Len(matches) = 1

(* the editor the active pane item is, "none" when it is no editor *)
ActiveEditor == IF pane.active_item \in EditorItems THEN pane.active_item ELSE "none"

(* C14: the status item reflects the active pane item: with a non-editor or  *)
(* no item active indent_size is None and no subscription is held; with      *)
(* editor B active the one subscription is to B and indent_size is           *)
(* read_indent_size(B) as of B's last delivered notification; a notification *)
(* from an editor that is not the active one never changes the status item.  *)
C14_StatusFollowsActiveItem ==
    [][ /\ indentation'.observe_active_editor = ActiveEditor'
        /\ ActiveEditor' = "none" => indentation'.indent_size = NoIndentSize
        /\ (ActiveEditor' # "none" /\ ActiveEditor' \notin pane'.notified) =>
              indentation'.indent_size = read_indent_size(pane'.documents[ActiveEditor'])
        /\ \A e \in EditorItems :
              (e \in pane.notified /\ e \notin pane'.notified /\ e # ActiveEditor) =>
                  indentation' = indentation
      ]_vars

C14_Witness ==
    /\ last.op = "notify_unobserved"
    /\ pane.active_item = "editor_b"
    /\ indentation.observe_active_editor = "editor_b"
    /\ indentation.indent_size = [len |-> 2, kind |-> "Space"]
    /\ pane.documents["editor_a"].language
    /\ pane.documents["editor_a"].tab_size = 8
    /\ pane.documents["editor_a"].hard_tabs

(* C15: read_indent_size gives none when the editor has no active excerpt or *)
(* its buffer has no language, and otherwise the IndentSize whose width is   *)
(* the resolved tab_size and whose kind is Tab exactly when hard_tabs is     *)
(* set; reading changes neither the documents nor the subscription.          *)
C15_ReadIndentSize ==
    [][ (last'.op \in {"set_active_pane_item", "update_indentation"}
            /\ ActiveEditor' # "none") =>
          LET document == pane.documents[ActiveEditor']
              size == indentation'.indent_size
          IN /\ (~document.excerpt \/ ~document.language) => size = NoIndentSize
             /\ (document.excerpt /\ document.language) =>
                   /\ size.len = document.tab_size
                   /\ size.kind = "Tab" <=> document.hard_tabs
                   /\ size.kind = "Space" <=> ~document.hard_tabs
             /\ pane'.documents = pane.documents
             /\ indentation'.observe_active_editor = ActiveEditor'
      ]_vars

C15_Witness ==
    /\ last.op = "update_indentation"
    /\ indentation.indent_size = [len |-> 8, kind |-> "Tab"]

(* C16: an invalidated weak handle resolves to absent: with the selector      *)
(* released, dismissed() and confirm() run to their end and emit no event;    *)
(* with the picker released, a filter completion is discarded and changes no  *)
(* delegate state.                                                            *)
C16_ReleasedHandlesAreAbsent ==
    [][ /\ (last'.op \in {"confirm", "dismissed"} /\ ~selector_alive) =>
              /\ last'.events = 0
              /\ was_dismissed'
        /\ (~picker_alive /\ BagCardinality(inflight') < BagCardinality(inflight)) =>
              /\ last'.op = "filter_discarded"
              /\ matches' = matches
              /\ selected_index' = selected_index
              /\ last'.calls = <<>>
              /\ last'.events = 0
      ]_vars

C16_Witness ==
    /\ last.op = "dismissed"
    /\ ~selector_alive
    /\ picker_alive
    /\ last.events = 0

(* C17: a confirm() makes one settings call when selected_index is in range  *)
(* of matches and the editor has a file at the buffer start, and none in     *)
(* every other case; in both cases it goes on to the dismissal.              *)
C17_ConfirmWritesIffSelectionAndFile ==
    last.op = "confirm" =>
        /\ Len(last.calls) =
              IF selected_index < Len(matches) /\ editor.file # NoFile THEN 1 ELSE 0
        /\ last.events = IF selector_alive THEN 1 ELSE 0
        /\ was_dismissed

C17_Witness ==
    /\ last.op = "confirm"
    /\ Len(matches) = 1
    /\ selected_index = 3
    /\ editor.file # NoFile
    /\ last.calls = <<>>
    /\ last.events = 1

(* C18: a filter completion never increases selected_index: an old index   *)
(* below the new len(matches) is kept as it is, any other becomes the last *)
(* index of the new matches (0 when they are empty).                       *)
C18_CompletionKeepsOrLowersSelection ==
    [][ last'.op = "filter_complete" =>
          /\ selected_index' <= selected_index
          /\ selected_index < Len(matches') => selected_index' = selected_index
          /\ (selected_index >= Len(matches') /\ matches' # <<>>) =>
                selected_index' = Len(matches') - 1
          /\ matches' = <<>> => selected_index' = 0
      ]_vars

C18_Witness ==
    /\ last.op = "filter_complete"
    /\ last.query = <<>>
    /\ Len(matches) = 4
    /\ selected_index = 3

CandidateIds == {16, 2, 4, 8}

(* C19: every element of matches carries the id of one of the four          *)
(* candidates and no id occurs twice, so every settings call has a width in *)
(* {16, 2, 4, 8} and render_match finds the candidate of every index in     *)
(* range.                                                                   *)
C19_MatchesNameCandidates ==
    /\ \A i \in 1..Len(matches) : matches[i].candidate_id \in CandidateIds
    /\ \A i, j \in 1..Len(matches) :
          i # j => matches[i].candidate_id # matches[j].candidate_id
    /\ \A i \in 1..Len(last.calls) :
          \E n \in CandidateIds : last.calls[i].content = ExpectedConfig(n)
    /\ \A i \in 1..Len(matches) :
          /\ render_match(matches, i - 1, i - 1 = selected_index) # NoListItem
          /\ render_match(matches, i - 1, i - 1 = selected_index).label = matches[i].string

C19_Witness ==
    /\ last.op = "confirm"
    /\ Len(matches) = 4
    /\ selected_index = 3
    /\ Len(last.calls) = 1
    /\ last.calls[1].content = "[/**]\nindent_size = 8\nindent_style = space\ntab_width=8"
    /\ render_match(matches, 3, TRUE).label = "8 spaces"

====
